---- MODULE Spec2Model ----
(***************************************************************************)
(* A model of the FastAPI tutorial application in src/src/main.py.         *)
(*                                                                         *)
(* State: the three module-level stores (fake_items_db, items, vehicles),  *)
(* the request being answered, its response, whether the handler body was  *)
(* entered, and the number of requests served so far.                      *)
(*                                                                         *)
(* Encodings.                                                              *)
(*   - A Python dict / JSON object is a function whose domain is the set   *)
(*     of keys that are present.                                           *)
(*   - A nullable value is a sequence of length <= 1: None is << >>, the   *)
(*     value v is <<v>>.                                                   *)
(*   - A JSON array is a sequence; a Python set is a set.                  *)
(*   - tax (a float) is counted in tenths: 20.2 is 202.                    *)
(*   - a datetime is an integer instant, a timedelta their difference.     *)
(***************************************************************************)
EXTENDS Integers, Sequences, FiniteSets, TLC

VARIABLES fake_items_db, items, vehicles, request, response, handler_called, served

vars == <<fake_items_db, items, vehicles, request, response, handler_called, served>>

stores == <<fake_items_db, items, vehicles>>

\* Number of requests served in one behaviour.
MaxRequests == 3

None == << >>

Some(v) == <<v>>

Range(s) == {s[i] : i \in 1..Len(s)}

Restrict(d, keys) == [k \in (DOMAIN d) \cap keys |-> d[k]]

\* {**a, **b}: the keys of both, b's value where both have one.
Merge(a, b) == [k \in (DOMAIN a) \cup (DOMAIN b) |-> IF k \in DOMAIN b THEN b[k] ELSE a[k]]

\* list(s) for a set s, in some fixed order.
RECURSIVE SetToList(_)
SetToList(S) == IF S = {} THEN << >>
                ELSE LET x == CHOOSE y \in S : TRUE IN <<x>> \o SetToList(S \ {x})

----------------------------------------------------------------------------
(* The module-level stores *)

fake_items_db_init == << [item_name |-> "Foo"], [item_name |-> "Bar"], [item_name |-> "Spam"] >>

items_init ==
    [ foo |-> [name |-> "Foo", price |-> 50200],
      bar |-> [name |-> "Bar", description |-> Some("The bartenders"), price |-> 6200,
               tax |-> Some(202)],
      baz |-> [name |-> "Baz", description |-> None, price |-> 5020, tax |-> Some(105),
               tags |-> << >>] ]

vehicles_init ==
    [ vehicle1 |-> [description |-> "All my friends drive a low rider", type |-> "car"],
      vehicle2 |-> [description |-> "Music is my aeroplane, it's my aeroplane",
                    type |-> "plane", size |-> 5] ]

----------------------------------------------------------------------------
(* schemas.Item *)

ItemFields == {"name", "description", "price", "tax", "tags", "images"}

price_gt == 100

price_le == 99999999

\* A mutation of price_ok: ge=100 in place of gt=100.
price_ok_ge(p) == p >= price_gt /\ p <= price_le

\* A mutation of price_ok: the upper bound le=99999999 is not declared.
price_ok_no_le(p) == p > price_gt

\* Field(gt=100, le=99999999)
price_ok(p) == p > price_gt /\ p <= price_le

\* One entry of exc.errors(): where the error is, and its type.
Err(loc, type) == [loc |-> loc, type |-> type]

\* The validation errors of Item(**d), each located under the path at.
Item_errors_at(at, d) ==
    (IF "name" \in DOMAIN d THEN {} ELSE {Err(at \o <<"name">>, "value_error.missing")})
    \cup
    (IF "price" \notin DOMAIN d THEN {Err(at \o <<"price">>, "value_error.missing")}
     ELSE IF price_ok(d["price"]) THEN {}
     ELSE IF d["price"] > price_gt
          THEN {Err(at \o <<"price">>, "value_error.number.not_le")}
          ELSE {Err(at \o <<"price">>, "value_error.number.not_gt")})

\* The validation errors of Item(**d).
Item_errors(d) == Item_errors_at(<< >>, d)

\* Item(**d) for a d without validation errors: every field, the absent ones at
\* their defaults, and the set of fields that were given.
Item(d) ==
    [ name        |-> d["name"],
      description |-> IF "description" \in DOMAIN d THEN d["description"] ELSE None,
      price       |-> d["price"],
      tax         |-> IF "tax" \in DOMAIN d THEN d["tax"] ELSE None,
      tags        |-> IF "tags" \in DOMAIN d THEN Range(d["tags"]) ELSE {},
      images      |-> IF "images" \in DOMAIN d THEN d["images"] ELSE None,
      fields_set  |-> (DOMAIN d) \cap ItemFields ]

\* item.dict()
Item_dict(m) == [k \in ItemFields |-> m[k]]

\* item.dict(exclude_unset=True)
Item_dict_exclude_unset(m) == [k \in m.fields_set |-> m[k]]

\* model.copy(update=update): the update's values are taken as they are.
Item_copy(m, update) ==
    [k \in ItemFields \cup {"fields_set"} |->
        IF k = "fields_set" THEN m.fields_set \cup DOMAIN update
        ELSE IF k \in DOMAIN update THEN update[k]
        ELSE m[k]]

\* jsonable_encoder(model): every field, a set written as a list.
jsonable_encoder(m) ==
    [k \in ItemFields |-> IF k = "tags" THEN SetToList(m[k]) ELSE m[k]]

----------------------------------------------------------------------------
(* Responses *)

Response(status, body) == [status |-> status, body |-> body]

\* validation_exception_handler
validation_exception_handler(errors, body) ==
    Response(422, [detail |-> errors, body |-> body])

\* An exception no handler is registered for.
ServerError == Response(500, [detail |-> "Internal Server Error"])

\* What a request is answered with, and whether its handler's body was entered.
Answered(resp, called) == [response |-> resp, called |-> called]

\* The framework's validation of the declared parameters: with errors the
\* request is answered by validation_exception_handler and the handler is not
\* called; without, the handler's body gives the response.
Validate(errors, body, resp) ==
    IF errors # {} THEN Answered(validation_exception_handler(errors, body), FALSE)
    ELSE Answered(resp, TRUE)

\* HTTPException, answered by custom_http_exception_handler (which prints, then
\* calls FastAPI's handler); headers are not modelled.
http_exception(status_code, detail) == Response(status_code, [detail |-> detail])

\* The validation errors of the required parameters named in names.
required_errors(where, given, names) ==
    { Err(<<where, f>>, "value_error.missing") : f \in names \ DOMAIN given }

\* response_model=Item: the returned model is validated as an Item and encoded.
serialize_Item(m) ==
    LET d == jsonable_encoder(m)
    IN  IF Item_errors(d) = {} THEN Response(200, jsonable_encoder(Item(d)))
        ELSE ServerError

----------------------------------------------------------------------------
(* Serving a request *)

\* One request is served: the request and its response are recorded.
Answer(req, ans) ==
    /\ served < MaxRequests
    /\ served' = served + 1
    /\ request' = req
    /\ response' = ans.response
    /\ handler_called' = ans.called

----------------------------------------------------------------------------
(* PATCH /items/{item_id} *)

\* Item bodies: three that are valid, one with an explicit null, the prices just
\* outside the two bounds, and the two required fields missing in turn.
ItemBodies ==
    { [name |-> "Qux", price |-> 101],
      [name |-> "Keyboard", description |-> Some("A very nice keyboard."), price |-> 7900,
       tags |-> <<"RGB", "t">>],
      [name |-> "Qux", price |-> 99999999, tax |-> Some(32), tags |-> <<"t", "t">>],
      [name |-> "Qux", price |-> 101, tax |-> None],
      [name |-> "Qux", price |-> 100],
      [name |-> "Qux", price |-> 100000000],
      [name |-> "Qux"],
      [price |-> 101, tax |-> Some(32)] }

ItemIds == {"foo", "bar", "baz", "qux"}

\* A mutation of update_data: item.dict(), every field of the body's model.
update_data_all_fields(item) == Item_dict(item)

\* update_data = item.dict(exclude_unset=True)
update_data(item) == Item_dict_exclude_unset(item)

\* The body of the PATCH handler on the store its: the response, and the store
\* as the handler leaves it. items[item_id] raises KeyError for an absent key,
\* Item(**stored_item_data) raises ValidationError for an invalid entry.
update_item_patch_body(its, item_id, item) ==
    IF item_id \notin DOMAIN its \/ Item_errors(its[item_id]) # {}
    THEN [response |-> ServerError, items |-> its]
    ELSE LET stored_item_model == Item(its[item_id])
             updated_item == Item_copy(stored_item_model, update_data(item))
         IN  [ response |-> serialize_Item(updated_item),
               items |-> [its EXCEPT ![item_id] = jsonable_encoder(updated_item)] ]

\* A mutation of update_item_patch_answer: the handler reads the stored item with
\* a default, so that an absent item_id is created from the body.
update_item_patch_answer_upsert(its, item_id, body) ==
    IF Item_errors(body) # {}
    THEN [ response |-> validation_exception_handler(Item_errors(body), body),
           called |-> FALSE, items |-> its ]
    ELSE LET upserted == IF item_id \in DOMAIN its THEN its
                         ELSE [k \in (DOMAIN its) \cup {item_id} |->
                                  IF k = item_id THEN body ELSE its[k]]
             out == update_item_patch_body(upserted, item_id, Item(body))
         IN  [response |-> out.response, called |-> TRUE, items |-> out.items]

\* PATCH /items/{item_id} on the store its.
update_item_patch_answer(its, item_id, body) ==
    IF Item_errors(body) # {}
    THEN [ response |-> validation_exception_handler(Item_errors(body), body),
           called |-> FALSE, items |-> its ]
    ELSE LET out == update_item_patch_body(its, item_id, Item(body))
         IN  [response |-> out.response, called |-> TRUE, items |-> out.items]

update_item_patch(item_id, body) ==
    LET ans == update_item_patch_answer(items, item_id, body)
    IN  /\ Answer([route |-> "PATCH /items/{item_id}", item_id |-> item_id, item |-> body], ans)
        /\ items' = ans.items
        /\ UNCHANGED <<fake_items_db, vehicles>>

PatchItem == \E item_id \in ItemIds, body \in ItemBodies : update_item_patch(item_id, body)

----------------------------------------------------------------------------
(* POST /items/ *)

\* The body of create_item.
create_item_body(item) ==
    LET item_dict == Merge(jsonable_encoder(item), [importance |-> "importance"])
    IN  IF item.tax # None /\ item.tax # Some(0)
        THEN Response(200, Merge(item_dict,
                 [price_with_tax |-> item.price * 10 + item.tax[1]]))
        ELSE Response(200, item_dict)

create_item_answer(body) == Validate(Item_errors(body), body, create_item_body(Item(body)))

\* A mutation of create_item: the created item is appended to fake_items_db.
create_item_appends(body) ==
    /\ Answer([route |-> "POST /items/", item |-> body], create_item_answer(body))
    /\ fake_items_db' = IF Item_errors(body) = {}
                        THEN Append(fake_items_db, [item_name |-> body["name"]])
                        ELSE fake_items_db
    /\ UNCHANGED <<items, vehicles>>

create_item(body) ==
    /\ Answer([route |-> "POST /items/", item |-> body], create_item_answer(body))
    /\ UNCHANGED stores

CreateItem == \E body \in ItemBodies : create_item(body)

----------------------------------------------------------------------------
(* PUT /items/{item_id} *)

\* ItemOptions(**d): promotion, hidden and shipping_available with their defaults.
ItemOptions(d) ==
    [ promotion          |-> IF "promotion" \in DOMAIN d THEN d["promotion"] ELSE 0,
      hidden             |-> IF "hidden" \in DOMAIN d THEN d["hidden"] ELSE FALSE,
      shipping_available |-> IF "shipping_available" \in DOMAIN d
                             THEN d["shipping_available"] ELSE TRUE ]

\* min_length=3, max_length=50
q_length_ok(q) == Len(q) >= 3 /\ Len(q) <= 50

\* regex="^[a-zA-Z0-9 ]+" on the sample strings.
q_regex_ok(q) == q \in {"abc", "ab"}

\* The validation errors of the required query parameter q; None when not given.
q_errors(q) ==
    IF q = None THEN {Err(<<"query", "q">>, "value_error.missing")}
    ELSE IF ~q_length_ok(q[1]) THEN {Err(<<"query", "q">>, "value_error.any_str.min_length")}
    ELSE IF ~q_regex_ok(q[1]) THEN {Err(<<"query", "q">>, "value_error.str.regex")}
    ELSE {}

\* The body of the PUT handler; options is None when the body carries none, and
\* None.hidden raises AttributeError.
update_item_put_body(item_id, item, options, q, optional_query) ==
    IF options = None THEN ServerError
    ELSE IF options[1].hidden
    THEN Response(200, [query |-> q, opt_query |-> optional_query])
    ELSE Response(200,
            [ query |-> q, opt_query |-> optional_query,
              item |-> Merge(Merge([item_id |-> item_id], jsonable_encoder(item)),
                             Restrict(options[1], {"promotion", "shipping_available"})) ])

\* PUT /items/{item_id}; the body is {"item": ..., "options": ...}.
update_item_put_answer(item_id, body, q) ==
    LET errors == (IF "item" \in DOMAIN body
                   THEN Item_errors_at(<<"body", "item">>, body["item"])
                   ELSE {Err(<<"body", "item">>, "value_error.missing")})
                  \cup q_errors(q)
        options == IF "options" \in DOMAIN body THEN Some(ItemOptions(body["options"]))
                   ELSE None
    IN  Validate(errors, body,
                 update_item_put_body(item_id, Item(body["item"]), options, q[1], None))

update_item_put(item_id, body, q) ==
    /\ Answer([route |-> "PUT /items/{item_id}", item_id |-> item_id, body |-> body, q |-> q],
              update_item_put_answer(item_id, body, q))
    /\ UNCHANGED stores

PutRequests ==
    { [body |-> [item |-> [name |-> "Qux", price |-> p]], q |-> Some("abc")] : p \in {100, 101} }
    \cup
    { [body |-> [item |-> [name |-> "Qux", price |-> p], options |-> o], q |-> Some("abc")] :
        p \in {100, 101}, o \in {[hidden |-> TRUE], [promotion |-> 200]} }
    \cup
    { [body |-> [item |-> [name |-> "Qux", price |-> 101], options |-> [promotion |-> 200]],
       q |-> q] : q \in {None, Some("ab"), Some("?!?")} }

PutItem == \E r \in PutRequests : update_item_put(1, r.body, r.q)

----------------------------------------------------------------------------
(* POST /offers/ *)

\* schemas.Offer
OfferFields == {"id", "name", "description", "price", "items", "start_datetime",
                "end_datetime", "repeat_at"}

OfferRequired == {"id", "name", "price", "items"}

\* The sample strings UUID accepts.
uuid_ok(u) == u \in {"3fa85f64-5717-4562-b3fc-2c963f66afa6"}

\* The validation errors of Offer(**d).
Offer_errors(d) ==
    required_errors("body", d, OfferRequired)
    \cup
    (IF "id" \in DOMAIN d /\ ~uuid_ok(d["id"])
     THEN {Err(<<"body", "id">>, "type_error.uuid")} ELSE {})
    \cup
    (IF "items" \in DOMAIN d
     THEN UNION { Item_errors_at(<<"body", "items", ToString(i - 1)>>, d["items"][i]) :
                  i \in 1..Len(d["items"]) }
     ELSE {})

\* Offer(**d) for a d without validation errors; keys that are no field are ignored.
Offer(d) ==
    [k \in OfferFields |->
        IF k = "items" THEN [i \in 1..Len(d["items"]) |-> Item(d["items"][i])]
        ELSE IF k \in DOMAIN d THEN d[k]
        ELSE None]

\* jsonable_encoder(offer)
Offer_encoded(o) ==
    [k \in OfferFields |->
        IF k = "items" THEN [i \in 1..Len(o["items"]) |-> jsonable_encoder(o["items"][i])]
        ELSE o[k]]

\* offer.dict(), then update({"duration": duration}); the nested items are written
\* as the JSON they are validated from again.
offer_dict(o, duration) == Merge(Offer_encoded(o), [duration |-> duration])

\* response_model=Offer: the returned dict is validated as an Offer and encoded.
serialize_Offer(d) ==
    IF Offer_errors(d) = {} THEN Response(200, Offer_encoded(Offer(d))) ELSE ServerError

\* The body of create_offer: None - None, or a datetime minus None, raises TypeError.
create_offer_body(o) ==
    IF o["start_datetime"] = None \/ o["end_datetime"] = None THEN ServerError
    ELSE serialize_Offer(offer_dict(o, o["end_datetime"][1] - o["start_datetime"][1]))

create_offer_answer(body) == Validate(Offer_errors(body), body, create_offer_body(Offer(body)))

create_offer(body) ==
    /\ Answer([route |-> "POST /offers/", offer |-> body], create_offer_answer(body))
    /\ UNCHANGED stores

OfferBase(l) ==
    [id |-> "3fa85f64-5717-4562-b3fc-2c963f66afa6", name |-> "pack", price |-> 35000, items |-> l]

OfferItem(p) == [name |-> "Qux", price |-> p]

OfferBodies ==
    { OfferBase(<<OfferItem(101)>>),
      Merge(OfferBase(<<OfferItem(101)>>), [start_datetime |-> Some(10)]),
      Merge(OfferBase(<<OfferItem(101)>>), [end_datetime |-> Some(25)]),
      Merge(OfferBase(<<OfferItem(101)>>), [start_datetime |-> None, end_datetime |-> None]),
      Merge(OfferBase(<<OfferItem(101)>>),
            [start_datetime |-> Some(25), end_datetime |-> Some(10)]),
      Restrict(OfferBase(<<OfferItem(101)>>), {"id", "price", "items"}),
      Merge(OfferBase(<<OfferItem(101)>>), [id |-> "not a uuid"]) }
    \cup
    { Merge(OfferBase(l), [start_datetime |-> Some(10), end_datetime |-> Some(25)]) :
        l \in { << >>, <<OfferItem(101)>>, <<OfferItem(100)>>,
                <<OfferItem(101), OfferItem(100)>>, <<OfferItem(101), OfferItem(99999999)>> } }

CreateOffer == \E body \in OfferBodies : create_offer(body)

----------------------------------------------------------------------------
(* GET /vehicles/{vehicle_id} *)

\* The validation errors of PlaneVehicle(**d): description and size are required.
PlaneVehicle_errors(d) == required_errors("response", d, {"description", "size"})

\* The validation errors of CarVehicle(**d): description is required.
CarVehicle_errors(d) == required_errors("response", d, {"description"})

PlaneVehicle(d) ==
    [ description |-> d["description"],
      type        |-> IF "type" \in DOMAIN d THEN d["type"] ELSE "plane",
      size        |-> d["size"] ]

CarVehicle(d) ==
    [ description |-> d["description"],
      type        |-> IF "type" \in DOMAIN d THEN d["type"] ELSE "car" ]

\* A mutation of serialize_vehicle: response_model=CarVehicle | PlaneVehicle.
serialize_vehicle_car_first(d) ==
    IF CarVehicle_errors(d) = {} THEN Response(200, CarVehicle(d))
    ELSE IF PlaneVehicle_errors(d) = {} THEN Response(200, PlaneVehicle(d))
    ELSE ServerError

\* response_model=PlaneVehicle | CarVehicle: the first member of the union that
\* the returned dict validates as.
serialize_vehicle(d) ==
    IF PlaneVehicle_errors(d) = {} THEN Response(200, PlaneVehicle(d))
    ELSE IF CarVehicle_errors(d) = {} THEN Response(200, CarVehicle(d))
    ELSE ServerError

\* GET /vehicles/{vehicle_id} on the store veh.
read_vehicle_answer(veh, vehicle_id) ==
    LET key == "vehicle" \o vehicle_id
    IN  Answered(IF key \notin DOMAIN veh THEN http_exception(404, "Vehicle not found.")
                 ELSE serialize_vehicle(veh[key]), TRUE)

read_vehicle(vehicle_id) ==
    /\ Answer([route |-> "GET /vehicles/{vehicle_id}", vehicle_id |-> vehicle_id],
              read_vehicle_answer(vehicles, vehicle_id))
    /\ UNCHANGED stores

VehicleIds == {"1", "2", "3", "vehicle1"}

ReadVehicle == \E vehicle_id \in VehicleIds : read_vehicle(vehicle_id)

----------------------------------------------------------------------------
(* POST /login *)

\* A mutation of login_body: the username is checked as well.
login_body_checks_username(username, password) ==
    IF password = "password123" /\ username = "alice"
    THEN Response(200, [token |-> "user_token", username |-> username])
    ELSE http_exception(400, "Incorrect username and/or password.")

\* The body of login.
login_body(username, password) ==
    IF password = "password123"
    THEN Response(200, [token |-> "user_token", username |-> username])
    ELSE http_exception(400, "Incorrect username and/or password.")

\* POST /login; form holds the fields that were submitted, both are required.
login_answer(form) ==
    Validate(required_errors("body", form, {"username", "password"}), form,
             login_body(form["username"], form["password"]))

login(form) ==
    /\ Answer([route |-> "POST /login", form |-> form], login_answer(form))
    /\ UNCHANGED stores

Usernames == {"alice", "bob"}

Passwords == {"password123", "Password123", "hunter2"}

LoginForms == [username : Usernames, password : Passwords] \cup {[username |-> "alice"]}

Login == \E form \in LoginForms : login(form)

----------------------------------------------------------------------------
(* GET /unicorns/{name} and GET /tracks/{track_id} *)

\* exceptions.UnicornException: an exception that carries a name.
UnicornException(name) == [name |-> name]

\* unicorn_exception_handler
unicorn_exception_handler(exc) ==
    Response(418, [message |-> "Oops! " \o exc.name \o " did something. There goes a rainbow..."])

\* A mutation of read_unicorn_body: no name raises the exception.
read_unicorn_body_never_raises(name) == Response(200, [unicorn_name |-> name])

\* The body of read_unicorn.
read_unicorn_body(name) ==
    IF name = "yolo" THEN unicorn_exception_handler(UnicornException(name))
    ELSE Response(200, [unicorn_name |-> name])

read_unicorn_answer(name) == Answered(read_unicorn_body(name), TRUE)

read_unicorn(name) ==
    /\ Answer([route |-> "GET /unicorns/{name}", name |-> name], read_unicorn_answer(name))
    /\ UNCHANGED stores

UnicornNames == {"yolo", "Yolo", "rarity"}

ReadUnicorn == \E name \in UnicornNames : read_unicorn(name)

read_exceptions_answer(track_id) ==
    Answered(IF track_id = 3 THEN http_exception(418, "Nope! I don't like 3.")
             ELSE Response(200, [track_id |-> track_id]), TRUE)

read_exceptions(track_id) ==
    /\ Answer([route |-> "GET /tracks/{track_id}", track_id |-> track_id],
              read_exceptions_answer(track_id))
    /\ UNCHANGED stores

ReadTrack == \E track_id \in {3, 4} : read_exceptions(track_id)

----------------------------------------------------------------------------
(* POST /user/ *)

BaseUserFields == {"username", "email", "full_name"}

UserOutFields == BaseUserFields

UserInDBFields == BaseUserFields \cup {"hashed_password"}

\* The sample addresses EmailStr accepts.
email_ok(e) == e \in {"a@example.com"}

\* The validation errors of UserIn(**d).
UserIn_errors(d) ==
    required_errors("body", d, {"username", "email", "raw_password"})
    \cup (IF "email" \in DOMAIN d /\ ~email_ok(d["email"])
          THEN {Err(<<"body", "email">>, "value_error.email")} ELSE {})

\* UserIn(**d) for a d without validation errors.
UserIn(d) ==
    [ username     |-> d["username"],
      email        |-> d["email"],
      full_name    |-> IF "full_name" \in DOMAIN d THEN d["full_name"] ELSE None,
      raw_password |-> d["raw_password"] ]

\* functions.fake_hash_pwd
fake_hash_pwd(raw_password) == "hashed" \o raw_password

\* functions.fake_save_user: UserInDB(**user_input.dict(), hashed_password=...), where
\* raw_password is no field of UserInDB and is ignored.
fake_save_user(user_input) ==
    Restrict(Merge(user_input, [hashed_password |-> fake_hash_pwd(user_input.raw_password)]),
             UserInDBFields)

\* A mutation of create_user_body: the handler is declared -> UserInDB.
create_user_body_as_stored(user) ==
    Response(201, Restrict(fake_save_user(user), UserInDBFields))

\* The body of create_user; its declared return type UserOut is the response
\* model, which keeps the UserOut fields of what is returned.
create_user_body(user) ==
    LET user_saved == fake_save_user(user)
    IN  Response(201, Restrict(user_saved, UserOutFields))

create_user_answer(body) == Validate(UserIn_errors(body), body, create_user_body(UserIn(body)))

create_user(body) ==
    /\ Answer([route |-> "POST /user/", user |-> body], create_user_answer(body))
    /\ UNCHANGED stores

RawPasswords == {"hunter2", "s3cret"}

UserBodies ==
    [username : {"alice"}, email : {"a@example.com"}, raw_password : RawPasswords]
    \cup [username : {"alice"}, email : {"a@example.com"}, raw_password : RawPasswords,
          full_name : {Some("Alice A")}]
    \cup { [username |-> "alice", email |-> "not an address", raw_password |-> "hunter2"],
           [username |-> "alice", email |-> "a@example.com"] }

CreateUser == \E body \in UserBodies : create_user(body)

----------------------------------------------------------------------------
(* GET /items/ and GET /search *)

Min(a, b) == IF a < b THEN a ELSE b

Max(a, b) == IF a > b THEN a ELSE b

\* A slice bound as Python reads it in a list of length n.
SliceIndex(i, n) == IF i < 0 THEN Max(i + n, 0) ELSE Min(i, n)

\* s[start:stop]
PySlice(s, start, stop) ==
    SubSeq(s, SliceIndex(start, Len(s)) + 1, SliceIndex(stop, Len(s)))

\* GET /items/ on the list db.
read_item_answer(db, skip, limit) ==
    Answered(Response(200, [results |-> PySlice(db, skip, skip + limit)]), TRUE)

read_item(skip, limit) ==
    /\ Answer([route |-> "GET /items/", skip |-> skip, limit |-> limit],
              read_item_answer(fake_items_db, skip, limit))
    /\ UNCHANGED stores

ReadItem == \E r \in {<<0, 10>>, <<1, 1>>, <<-1, 5>>} : read_item(r[1], r[2])

\* str.lower() on the sample strings.
Lower(s) == CASE s = "Foo" -> "foo"
              [] s = "Bar" -> "bar"
              [] s = "Spam" -> "spam"
              [] s = "SPAM" -> "spam"
              [] OTHER -> s

\* The body of search_items on the list db; q is None when not given.
search_items_body(db, q) ==
    IF q = None \/ q = Some("") THEN Response(200, [results |-> db])
    ELSE Response(200,
            [results |-> SelectSeq(db, LAMBDA item : Lower(q[1]) = Lower(item.item_name))])

\* GET /search on the list db; q is declared min_length=3, max_length=50.
search_items_answer(db, q) ==
    Validate(IF q # None /\ ~q_length_ok(q[1])
             THEN {Err(<<"query", "q">>, "value_error.any_str.min_length")} ELSE {},
             None, search_items_body(db, q))

search_items(q) ==
    /\ Answer([route |-> "GET /search", q |-> q], search_items_answer(fake_items_db, q))
    /\ UNCHANGED stores

SearchItems == \E q \in {None, Some("fo"), Some("SPAM"), Some("eggs")} : search_items(q)

----------------------------------------------------------------------------
(* The handlers that read no store *)

\* GET /
root_answer == Answered(Response(200, [message |-> "Hello, world!"]), TRUE)

root ==
    /\ Answer([route |-> "GET /"], root_answer)
    /\ UNCHANGED stores

\* GET /cards/{card_id}; q is None when not given, and "if q" is false for "".
read_card_answer(card_id, short, q) ==
    LET card == [card_id |-> card_id]
        with_q == IF q # None /\ q # Some("") THEN Merge(card, [q |-> q[1]]) ELSE card
    IN  Answered(Response(200,
            IF ~short
            THEN Merge(with_q, [description |-> "An amazing card with an extra long description"])
            ELSE with_q), TRUE)

read_card(card_id, short, q) ==
    /\ Answer([route |-> "GET /cards/{card_id}", card_id |-> card_id, short |-> short, q |-> q],
              read_card_answer(card_id, short, q))
    /\ UNCHANGED stores

ReadCard == \E short \in BOOLEAN, q \in {None, Some("q")} : read_card(7, short, q)

\* GET /users/me; the cookie jwt_token is required.
read_user_me_answer(cookies) ==
    Validate(required_errors("cookie", cookies, {"jwt_token"}), None,
             Response(200, [user_id |-> "the current user: " \o cookies["jwt_token"]]))

read_user_me(cookies) ==
    /\ Answer([route |-> "GET /users/me", cookies |-> cookies], read_user_me_answer(cookies))
    /\ UNCHANGED stores

ReadUserMe == \E cookies \in {[jwt_token |-> "tok"], [other |-> "x"]} : read_user_me(cookies)

\* GET /users/{username}/hi
say_hi_to_user_answer(username) == Answered(Response(200, [msg |-> "hi " \o username]), TRUE)

say_hi_to_user(username) ==
    /\ Answer([route |-> "GET /users/{username}/hi", username |-> username],
              say_hi_to_user_answer(username))
    /\ UNCHANGED stores

SayHi == \E username \in {"alice"} : say_hi_to_user(username)

\* enums.ModelName
ModelName == {"alexnet", "resnet", "lenet"}

\* GET /models/{model_name}
get_model_answer(model_name) ==
    Validate(IF model_name \in ModelName THEN {}
             ELSE {Err(<<"path", "model_name">>, "type_error.enum")},
             None,
             Response(200, [model_name |-> model_name,
                            message |-> IF model_name = "alexnet" THEN "Deep Learning FTW!"
                                        ELSE IF model_name = "lenet" THEN "LeCNN all the images"
                                        ELSE "Have some residuals"]))

get_model(model_name) ==
    /\ Answer([route |-> "GET /models/{model_name}", model_name |-> model_name],
              get_model_answer(model_name))
    /\ UNCHANGED stores

GetModel == \E model_name \in ModelName \cup {"vgg"} : get_model(model_name)

\* GET /keyboards/{keyboard_id}/; keyboard_id is declared ge=1, le=999.
read_keyboard_answer(q, keyboard_id) ==
    LET results == [keyboard_id |-> keyboard_id]
    IN  Validate(IF keyboard_id < 1
                 THEN {Err(<<"path", "keyboard_id">>, "value_error.number.not_ge")}
                 ELSE IF keyboard_id > 999
                 THEN {Err(<<"path", "keyboard_id">>, "value_error.number.not_le")}
                 ELSE {},
                 None,
                 Response(200, IF q # None /\ q # Some("") THEN Merge(results, [q |-> q[1]])
                               ELSE results))

read_keyboard(q, keyboard_id) ==
    /\ Answer([route |-> "GET /keyboards/{keyboard_id}/", q |-> q, keyboard_id |-> keyboard_id],
              read_keyboard_answer(q, keyboard_id))
    /\ UNCHANGED stores

ReadKeyboard == \E r \in {<<None, 0>>, <<Some("q"), 999>>, <<None, 1000>>} :
                    read_keyboard(r[1], r[2])

\* GET /users/{user_id}/items/{item_id}; the query parameter needy is required.
read_user_item_answer(user_id, item_id, query) ==
    Validate(required_errors("query", query, {"needy"}), None,
             Response(200, [user_id |-> user_id, item_id |-> item_id,
                            needy |-> query["needy"]]))

read_user_item(user_id, item_id, query) ==
    /\ Answer([route |-> "GET /users/{user_id}/items/{item_id}", user_id |-> user_id,
              item_id |-> item_id, query |-> query],
              read_user_item_answer(user_id, item_id, query))
    /\ UNCHANGED stores

ReadUserItem == \E query \in {[needy |-> "yes"], [other |-> "x"]} :
                    read_user_item(1, "foo", query)

\* GET /echo/items/; q is the list of the list-query values.
echo_items_answer(q, hidden_query) ==
    Answered(IF hidden_query # None /\ hidden_query # Some("")
             THEN Response(200, [hidden_query |-> hidden_query[1]])
             ELSE Response(200, [q |-> q]), TRUE)

echo_items(q, hidden_query) ==
    /\ Answer([route |-> "GET /echo/items/", q |-> q, hidden_query |-> hidden_query],
              echo_items_answer(q, hidden_query))
    /\ UNCHANGED stores

EchoItems == \E r \in {<< <<"a", "b">>, None >>, << << >>, Some("h") >>} :
                 echo_items(r[1], r[2])

\* The sample URLs HttpUrl accepts.
url_ok(u) == u \in {"https://via.placeholder.com/640x360"}

\* The validation errors of a list of Image bodies.
Images_errors(images) ==
    UNION { required_errors(ToString(i - 1), images[i], {"name", "url"})
            \cup (IF "url" \in DOMAIN images[i] /\ ~url_ok(images[i]["url"])
                  THEN {Err(<<ToString(i - 1), "url">>, "value_error.url.scheme")} ELSE {})
            : i \in 1..Len(images) }

\* POST /images/
create_image_answer(images) ==
    Validate(Images_errors(images), images,
             Response(200, [images |->
                 [i \in 1..Len(images) |-> Restrict(images[i], {"name", "url"})]]))

create_image(images) ==
    /\ Answer([route |-> "POST /images/", images |-> images], create_image_answer(images))
    /\ UNCHANGED stores

CreateImage ==
    \E images \in { << [name |-> "Front view", url |-> "https://via.placeholder.com/640x360"] >>,
                    << [name |-> "Switch", url |-> "no scheme"] >> } : create_image(images)

\* int(key) on the sample keys; None where the key is no integer.
ParseInt(key) == CASE key = "1" -> Some(1) [] key = "2" -> Some(2) [] OTHER -> None

\* POST /index-weights/; JSON keys are strings, are read as integers and are
\* written as strings again in the response.
create_index_weights_answer(weights) ==
    Validate({ Err(<<"body", k>>, "type_error.integer") :
                 k \in {key \in DOMAIN weights : ParseInt(key) = None} },
             weights,
             Response(200, [weights |->
                 { <<ToString(ParseInt(k)[1]), weights[k]>> : k \in DOMAIN weights }]))

create_index_weights(weights) ==
    /\ Answer([route |-> "POST /index-weights/", weights |-> weights],
              create_index_weights_answer(weights))
    /\ UNCHANGED stores

CreateIndexWeights == \E weights \in {[k \in {"1", "2"} |-> 5], [k \in {"one"} |-> 5]} :
                          create_index_weights(weights)

\* GET /headers/echo/
echo_user_agent_answer(user_agent, strange_header, x_token) ==
    Answered(Response(200,
        [k \in {"User-Agent", "strange_header", "X-Token values"} |->
            IF k = "User-Agent" THEN user_agent
            ELSE IF k = "strange_header" THEN strange_header
            ELSE x_token]), TRUE)

echo_user_agent(user_agent, strange_header, x_token) ==
    /\ Answer([route |-> "GET /headers/echo/", user_agent |-> user_agent,
              strange_header |-> strange_header, x_token |-> x_token],
              echo_user_agent_answer(user_agent, strange_header, x_token))
    /\ UNCHANGED stores

EchoUserAgent == \E user_agent \in {None, Some("curl")} :
                     echo_user_agent(user_agent, None, Some(<<"a", "b">>))

\* POST /files/; each file is its bytes, files is None when none is sent.
create_file_answer(form, files) ==
    Validate(required_errors("body", form, {"token"}), None,
             IF files = None \/ files = Some(<< >>)
             THEN Response(200, [message |-> "No file sent"])
             ELSE Response(200, [token |-> form["token"],
                                 file_sizes |-> [i \in 1..Len(files[1]) |-> Len(files[1][i])]]))

create_file(form, files) ==
    /\ Answer([route |-> "POST /files/", form |-> form, files |-> files],
              create_file_answer(form, files))
    /\ UNCHANGED stores

CreateFile == \E r \in { << [token |-> "tok"], None >>,
                         << [token |-> "tok"], Some(<< <<1, 2, 3>>, << >> >>) >>,
                         << [other |-> "x"], None >> } : create_file(r[1], r[2])

\* POST /uploadfile/; the file is required, and an UploadFile is never false.
create_upload_file_answer(form) ==
    Validate(required_errors("body", form, {"file"}), None,
             Response(200, [filename |-> form["file"].filename]))

create_upload_file(form) ==
    /\ Answer([route |-> "POST /uploadfile/", form |-> form], create_upload_file_answer(form))
    /\ UNCHANGED stores

CreateUploadFile == \E form \in { [file |-> [filename |-> "a.txt"]], [other |-> "x"] } :
                        create_upload_file(form)

----------------------------------------------------------------------------
(* The application *)

\* The response the application gives to the request req when its stores hold
\* db, its and veh.
ResponseTo(req, db, its, veh) ==
    CASE req.route = "GET /" -> root_answer.response
      [] req.route = "GET /cards/{card_id}" ->
            read_card_answer(req.card_id, req.short, req.q).response
      [] req.route = "GET /users/me" -> read_user_me_answer(req.cookies).response
      [] req.route = "GET /users/{username}/hi" -> say_hi_to_user_answer(req.username).response
      [] req.route = "GET /models/{model_name}" -> get_model_answer(req.model_name).response
      [] req.route = "GET /keyboards/{keyboard_id}/" ->
            read_keyboard_answer(req.q, req.keyboard_id).response
      [] req.route = "GET /items/" -> read_item_answer(db, req.skip, req.limit).response
      [] req.route = "GET /users/{user_id}/items/{item_id}" ->
            read_user_item_answer(req.user_id, req.item_id, req.query).response
      [] req.route = "GET /echo/items/" -> echo_items_answer(req.q, req.hidden_query).response
      [] req.route = "GET /search" -> search_items_answer(db, req.q).response
      [] req.route = "POST /items/" -> create_item_answer(req.item).response
      [] req.route = "PUT /items/{item_id}" ->
            update_item_put_answer(req.item_id, req.body, req.q).response
      [] req.route = "PATCH /items/{item_id}" ->
            update_item_patch_answer(its, req.item_id, req.item).response
      [] req.route = "POST /offers/" -> create_offer_answer(req.offer).response
      [] req.route = "POST /images/" -> create_image_answer(req.images).response
      [] req.route = "POST /index-weights/" -> create_index_weights_answer(req.weights).response
      [] req.route = "GET /headers/echo/" ->
            echo_user_agent_answer(req.user_agent, req.strange_header, req.x_token).response
      [] req.route = "POST /user/" -> create_user_answer(req.user).response
      [] req.route = "GET /vehicles/{vehicle_id}" ->
            read_vehicle_answer(veh, req.vehicle_id).response
      [] req.route = "POST /login" -> login_answer(req.form).response
      [] req.route = "POST /files/" -> create_file_answer(req.form, req.files).response
      [] req.route = "POST /uploadfile/" -> create_upload_file_answer(req.form).response
      [] req.route = "GET /unicorns/{name}" -> read_unicorn_answer(req.name).response
      [] req.route = "GET /tracks/{track_id}" -> read_exceptions_answer(req.track_id).response

NoRequest == [route |-> "none"]

Init ==
    /\ fake_items_db = fake_items_db_init
    /\ items = items_init
    /\ vehicles = vehicles_init
    /\ request = NoRequest
    /\ response = Response(0, [detail |-> "none"])
    /\ handler_called = FALSE
    /\ served = 0

Next ==
    \/ root
    \/ ReadCard
    \/ ReadUserMe
    \/ SayHi
    \/ GetModel
    \/ ReadKeyboard
    \/ ReadItem
    \/ ReadUserItem
    \/ EchoItems
    \/ SearchItems
    \/ CreateItem
    \/ PutItem
    \/ PatchItem
    \/ CreateOffer
    \/ CreateImage
    \/ CreateIndexWeights
    \/ EchoUserAgent
    \/ CreateUser
    \/ ReadVehicle
    \/ Login
    \/ CreateFile
    \/ CreateUploadFile
    \/ ReadUnicorn
    \/ ReadTrack

Spec == Init /\ [][Next]_vars

----------------------------------------------------------------------------
(* Properties *)

PatchRoute == "PATCH /items/{item_id}"

\* The Item bodies the request req carries.
CarriedItems(req) ==
    IF req.route \in {"POST /items/", PatchRoute} THEN {req.item}
    ELSE IF req.route = "PUT /items/{item_id}" /\ "item" \in DOMAIN req.body
    THEN {req.body["item"]}
    ELSE IF req.route = "POST /offers/" /\ "items" \in DOMAIN req.offer
    THEN Range(req.offer["items"])
    ELSE {}

CarriesLowPrice(req) ==
    \E item \in CarriedItems(req) : "price" \in DOMAIN item /\ item["price"] <= 100

C3_ReadVehicle ==
    request.route = "GET /vehicles/{vehicle_id}" =>
        LET key == "vehicle" \o request.vehicle_id
        IN  IF key \in DOMAIN vehicles
            THEN response = Response(200, vehicles[key])
            ELSE response = Response(404, [detail |-> "Vehicle not found."])

\* C3 happens: the plane, whose entry has the field only a PlaneVehicle has, has
\* been read.
C3_Witness ==
    /\ request.route = "GET /vehicles/{vehicle_id}"
    /\ request.vehicle_id = "2"
    /\ response.status = 200
    /\ "size" \in DOMAIN response.body

\* C4: every Offer body that passes validation is answered 200 with a duration
\* equal to end_datetime minus start_datetime and the other Offer fields as
\* submitted.
C4_OfferDuration ==
    request.route = "POST /offers/" /\ Offer_errors(request.offer) = {} =>
        /\ response.status = 200
        /\ "duration" \in DOMAIN response.body
        /\ LET o == Offer(request.offer)
           IN  /\ o["start_datetime"] # None /\ o["end_datetime"] # None
               /\ response.body["duration"] = o["end_datetime"][1] - o["start_datetime"][1]
               /\ Restrict(response.body, OfferFields) = Offer_encoded(o)

\* C5: GET /unicorns/{name} answers 418 with the message "Oops! <name> did
\* something. There goes a rainbow..." exactly when name is "yolo", and
\* {"unicorn_name": name} for every other name.
C5_Unicorn ==
    request.route = "GET /unicorns/{name}" =>
        IF request.name = "yolo"
        THEN response = Response(418,
                 [message |-> "Oops! yolo did something. There goes a rainbow..."])
        ELSE response = Response(200, [unicorn_name |-> request.name])

\* C5 happens: the unicorn named yolo has been asked for.
C5_Witness ==
    /\ request.route = "GET /unicorns/{name}"
    /\ request.name = "yolo"
    /\ response.status = 418

\* C6 as stated: after any sequence of requests, the response to a request is
\* the one it would get as the first request served.
C6_AsIfFirst ==
    request # NoRequest =>
        response = ResponseTo(request, fake_items_db_init, items_init, vehicles_init)

\* C6 as amended: after any sequence of requests, the response to a request
\* other than PATCH /items/{item_id} is the one it would get as the first
\* request served.
C6_AsIfFirstButPatch ==
    request # NoRequest /\ request.route # PatchRoute =>
        response = ResponseTo(request, fake_items_db_init, items_init, vehicles_init)

\* C6 (amended) happens: a PATCH has changed the store and a request that reads
\* a store has been served after it.
C6_Witness ==
    /\ request.route \in {"GET /items/", "GET /search", "GET /vehicles/{vehicle_id}"}
    /\ response.status = 200
    /\ items # items_init

\* C7: fake_items_db and vehicles keep their initial contents, the keys of items
\* stay foo, bar and baz, a step that changes a store is a PATCH of an existing
\* key and changes no other entry, and a PATCH of an absent key fails and
\* writes nothing.
C7_WritesConfined ==
    [][ /\ fake_items_db' = fake_items_db_init
        /\ vehicles' = vehicles_init
        /\ DOMAIN items' = {"foo", "bar", "baz"}
        /\ stores' # stores =>
              /\ request'.route = PatchRoute
              /\ request'.item_id \in DOMAIN items
              /\ \A k \in DOMAIN items \ {request'.item_id} : items'[k] = items[k]
        /\ request'.route = PatchRoute /\ request'.item_id \notin DOMAIN items =>
              /\ response'.status >= 400
              /\ stores' = stores ]_vars

\* C7 happens: a valid PATCH of an absent key has failed after another PATCH has
\* written an entry.
C7_Witness ==
    /\ request.route = PatchRoute
    /\ request.item_id = "qux"
    /\ Item_errors(request.item) = {}
    /\ response.status = 500
    /\ items # items_init

\* C8: every entry of items has a name, and a price above 100 and at most
\* 99999999.
C8_StoredPricesValid ==
    \A k \in DOMAIN items :
        /\ {"name", "price"} \subseteq DOMAIN items[k]
        /\ items[k]["price"] > 100
        /\ items[k]["price"] <= 99999999

\* C8 happens: a PATCH has stored a price and a PATCH with a price out of range
\* has come after it.
C8_Witness ==
    /\ request.route = PatchRoute
    /\ request.item_id = "foo"
    /\ "price" \in DOMAIN request.item
    /\ request.item["price"] = 100000000
    /\ items["foo"]["price"] = 99999999

\* The stored item old with the fields present in body replaced by body's.
PartialUpdate(old, body) ==
    [f \in ItemFields |->
        IF f \notin DOMAIN body THEN old[f]
        ELSE IF f = "tags" THEN Range(body[f])
        ELSE body[f]]

\* C9: after a successful PATCH, the stored entry and the response are the
\* previously stored item with the fields present in the body replaced by the
\* body's values, and the fields absent from the body as they were stored.
C9_PartialUpdate ==
    [][ request'.route = PatchRoute /\ response'.status = 200 =>
            LET id == request'.item_id
                expected == PartialUpdate(Item(items[id]), request'.item)
            IN  /\ Item_dict(Item(items'[id])) = expected
                /\ Item_dict(Item(response'.body)) = expected ]_vars

\* C9 happens: foo, stored without a tax, has been given one by a PATCH, and a
\* later PATCH that names no tax has kept it.
C9_Witness ==
    /\ request.route = PatchRoute
    /\ request.item_id = "foo"
    /\ "tax" \notin DOMAIN request.item
    /\ response.status = 200
    /\ response.body["tax"] = Some(32)
    /\ items["foo"]["tax"] = Some(32)

\* C10: the response to a valid POST /user/ holds the fields username, email
\* and full_name alone, none of them the password or its hash, and is the same
\* whatever the password is.
C10_PasswordNotDisclosed ==
    request.route = "POST /user/" /\ UserIn_errors(request.user) = {} =>
        /\ response.status = 201
        /\ DOMAIN response.body = {"username", "email", "full_name"}
        /\ \A f \in {"username", "email"} :
              response.body[f] \notin { request.user["raw_password"],
                                        "hashed" \o request.user["raw_password"] }
        /\ \A p \in RawPasswords :
              create_user_answer([request.user EXCEPT !["raw_password"] = p]).response = response

\* C10 happens: a user has been created.
C10_Witness ==
    /\ request.route = "POST /user/"
    /\ response.status = 201
    /\ request.user["raw_password"] = "s3cret"
    /\ "full_name" \in DOMAIN request.user

====
